---- MODULE Spec2Model ----
(***************************************************************************)
(* Model of daily-dev-digest (src/generate_digest.py): the history store,  *)
(* the fingerprint, the time-of-day strategy, the relevance scorer and the *)
(* run of main().                                                          *)
(*                                                                         *)
(* A Python str is a sequence of characters, each character a one-element  *)
(* TLA+ string.  A run of ASCII characters that the program never looks    *)
(* into (an MD5 hex digest, an ISO timestamp, a strategy description, a    *)
(* JSON field name) is one character of the model.  A Python dict is the   *)
(* sequence of its <<key, value>> pairs in insertion order, keys unique.   *)
(* A Python list of article dicts is a sequence of references (indices)    *)
(* into the heap `objs` of article objects.                                *)
(***************************************************************************)
EXTENDS Integers, Sequences, FiniteSets, TLC

VARIABLES
    pc,                     \* position of the process in main()
    run,                    \* number of the current invocation of main()
    now,                    \* wall clock, in invocations
    hour,                   \* datetime.now().hour read by get_content_strategy
    strategy,               \* main: strategy
    file,                   \* the file DUPLICATES_FILE on disk
    feeds,                  \* what each configured feed returns to this run
    objs,                   \* heap of the article dicts created by the fetch
    all_articles,           \* main: all_articles
    processed_articles,     \* main: processed_articles
    new_articles,           \* main: new_articles
    strategy_articles,      \* main: strategy_articles
    selected,               \* main: selected
    idx,                    \* main: position of the render loop in selected
    successful_generations, \* main: successful_generations
    loaded,                 \* history: what load_processed_articles returned
    file_at_start,          \* history: the file when this run started
    save_calls,             \* history: calls of save_processed_articles, this run
    rendered,               \* history: articles save_to_mdx wrote, this run
    committed,              \* history: the dict the last finished save wrote
    intact                  \* history: the file is as a finished save left it

vars == <<pc, run, now, hour, strategy, file, feeds, objs, all_articles,
          processed_articles, new_articles, strategy_articles, selected, idx,
          successful_generations, loaded, file_at_start, save_calls, rendered,
          committed, intact>>

----------------------------------------------------------------------------
(* Bounds of the model *)

MaxRuns == 2
MaxScoreLen == 3
MaxFetchFeeds == 5
MaxFetchExtra == 1
MaxCrashBytes == 13

(* Constants of the program *)

MAX_PER_FEED == 5
MAX_TOTAL == 20
BATCH_CAP == 4
HASH_PREFIX == 200

----------------------------------------------------------------------------
(* Strings *)

Min(a, b) == IF a <= b THEN a ELSE b

UpperToLower ==
    ("A" :> "a") @@ ("B" :> "b") @@ ("C" :> "c") @@ ("D" :> "d") @@
    ("E" :> "e") @@ ("F" :> "f") @@ ("G" :> "g") @@ ("H" :> "h") @@
    ("I" :> "i") @@ ("J" :> "j") @@ ("K" :> "k") @@ ("L" :> "l") @@
    ("M" :> "m") @@ ("N" :> "n") @@ ("O" :> "o") @@ ("P" :> "p") @@
    ("Q" :> "q") @@ ("R" :> "r") @@ ("S" :> "s") @@ ("T" :> "t") @@
    ("U" :> "u") @@ ("V" :> "v") @@ ("W" :> "w") @@ ("X" :> "x") @@
    ("Y" :> "y") @@ ("Z" :> "z")

\* str.lower()
Lower(s) ==
    [i \in 1..Len(s) |->
        IF s[i] \in DOMAIN UpperToLower THEN UpperToLower[s[i]] ELSE s[i]]

\* s[:n]
Take(s, n) == SubSeq(s, 1, Min(n, Len(s)))

\* `kw in text`
Contains(text, kw) ==
    \E i \in 1..(Len(text) - Len(kw) + 1) :
        SubSeq(text, i, i + Len(kw) - 1) = kw

----------------------------------------------------------------------------
(* Strategy Selector: get_content_strategy *)

strategies ==
    [morning |->
        [time_range |-> <<6, 11>>,
         focus |->
           <<<<"j", "a", "v", "a", "s", "c", "r", "i", "p", "t">>,
             <<"f", "r", "o", "n", "t", "e", "n", "d">>,
             <<"r", "e", "a", "c", "t">>,
             <<"v", "u", "e">>,
             <<"a", "n", "g", "u", "l", "a", "r">>,
             <<"t", "y", "p", "e", "s", "c", "r", "i", "p", "t">>,
             <<"n", "o", "d", "e", ".", "j", "s">>,
             <<"c", "o", "d", "i", "n", "g", "-", "t", "i", "p", "s">>>>,
         style |-> <<"energetic and practical">>,
         description |->
           <<"Technical tutorials and coding tips to start the day">>],
     afternoon |->
        [time_range |-> <<12, 17>>,
         focus |->
           <<<<"b", "a", "c", "k", "e", "n", "d">>,
             <<"d", "a", "t", "a", "b", "a", "s", "e", "s">>,
             <<"a", "p", "i">>,
             <<"d", "e", "v", "o", "p", "s">>,
             <<"c", "l", "o", "u", "d">>,
             <<"a", "r", "c", "h", "i", "t", "e", "c", "t", "u", "r", "e">>,
             <<"p", "e", "r", "f", "o", "r", "m", "a", "n", "c", "e">>,
             <<"s", "e", "c", "u", "r", "i", "t", "y">>>>,
         style |-> <<"detailed and informative">>,
         description |->
           <<"Deep technical content for focused work hours">>],
     evening |->
        [time_range |-> <<18, 23>>,
         focus |->
           <<<<"u", "x">>,
             <<"u", "i">>,
             <<"d", "e", "s", "i", "g", "n">>,
             <<"p", "r", "o", "d", "u", "c", "t", "i", "v", "i", "t", "y">>,
             <<"t", "o", "o", "l", "s">>,
             <<"c", "a", "r", "e", "e", "r">>,
             <<"s", "o", "f", "t", "-", "s", "k", "i", "l", "l", "s">>,
             <<"t", "r", "e", "n", "d", "s">>>>,
         style |-> <<"thoughtful and reflective">>,
         description |->
           <<"Design, career, and industry insights for evening reading">>],
     night |->
        [time_range |-> <<0, 5>>,
         focus |->
           <<<<"t", "u", "t", "o", "r", "i", "a", "l", "s">>,
             <<"l", "e", "a", "r", "n", "i", "n", "g">>,
             <<"f", "u", "n", "d", "a", "m", "e", "n", "t", "a", "l", "s">>,
             <<"c", "o", "n", "c", "e", "p", "t", "s">>,
             <<"t", "h", "e", "o", "r", "y">>,
             <<"b", "e", "s", "t", "-", "p", "r", "a", "c", "t", "i", "c", "e", "s">>>>,
         style |-> <<"educational and foundational">>,
         description |->
           <<"Educational content for late-night learners">>]]

StrategyNames == {"morning", "afternoon", "evening", "night"}

NoStrategy == [time_range |-> <<0, 0>>, focus |-> <<>>, style |-> <<>>,
               description |-> <<>>]

\* faulty variant: the upper end of the morning range taken as exclusive
get_content_strategy_exclusive(current_hour) ==
    IF 6 <= current_hour /\ current_hour < 11 THEN strategies["morning"]
    ELSE IF 12 <= current_hour /\ current_hour <= 17 THEN strategies["afternoon"]
    ELSE IF 18 <= current_hour /\ current_hour <= 23 THEN strategies["evening"]
    ELSE strategies["night"]

get_content_strategy(current_hour) ==
    IF 6 <= current_hour /\ current_hour <= 11 THEN strategies["morning"]
    ELSE IF 12 <= current_hour /\ current_hour <= 17 THEN strategies["afternoon"]
    ELSE IF 18 <= current_hour /\ current_hour <= 23 THEN strategies["evening"]
    ELSE strategies["night"]

----------------------------------------------------------------------------
(* Articles: the dicts fetch_articles_from_feed builds.  `keys` holds the   *)
(* optional keys main() and the scorer add later ('hash', 'strategy_score') *)

Article(title, link, published, content) ==
    [title |-> title, link |-> link, published |-> published,
     content |-> content, hash |-> <<>>, strategy_score |-> 0, keys |-> {}]

NonAscii == "e-acute"

U1 == Article(<<"V", "u", "e">>, <<"a">>, <<"p1">>,
              <<"r", "e", "a", "c", "t", " ", "a", "p", "i">>)
U2 == Article(<<"A", "P", "I">>, <<"b">>, <<>>,
              <<"c", "l", "o", "u", "d", " ", "u", "i">>)
U3 == Article(<<"u">>, <<"c">>, <<"p1">>, <<"i">>)
U4 == Article(<<"U", "X">>, <<"d">>, <<"p1">>, <<"u", "i", " ", "u", "x">>)
U5 == Article(<<"V", "u", "e">>, <<"a">>, <<"p2">>,
              <<"r", "e", "a", "c", "t", " ", "a", "p", "i">>)
U6 == Article(<<NonAscii, "\"">>, <<"e">>, <<"p1">>, <<>>)
U7 == Article(<<"t", "h", "e", "o", "r", "y">>, <<"f">>, <<"p2">>, <<"U", "i">>)

Universe == {U1, U2, U3, U4, U5, U6, U7}

----------------------------------------------------------------------------
(* Fingerprinter: get_article_hash.  MD5 is a fixed-width digest taken to  *)
(* be injective on the strings the feeds can deliver: the digest of a      *)
(* string is its place in a table of those strings.                        *)

HashInput(article) ==
    article.title \o article.link \o Take(article.content, HASH_PREFIX)

RECURSIVE Enumerate(_)
Enumerate(S) ==
    IF S = {} THEN <<>>
    ELSE LET x == CHOOSE y \in S : TRUE IN <<x>> \o Enumerate(S \ {x})

Md5Table == Enumerate({HashInput(a) : a \in Universe})

DigestNames == <<"d1", "d2", "d3", "d4", "d5", "d6", "d7", "d8">>

Md5HexDigest(s) ==
    <<DigestNames[CHOOSE i \in 1..Len(Md5Table) : Md5Table[i] = s]>>

get_article_hash(article) == Md5HexDigest(HashInput(article))

----------------------------------------------------------------------------
(* Relevance Scorer: filter_articles_by_strategy *)

\* faulty variant: the text is not lower-cased
ArticleTextCaseSensitive(article) ==
    article.title \o <<" ">> \o article.content

\* f"{article['title']} {article['content']}".lower()
ArticleText(article) == Lower(article.title \o <<" ">> \o article.content)

\* the loop `for keyword in strategy_keywords`, from keyword k on
RECURSIVE KeywordScore(_, _, _)
KeywordScore(article_text, strategy_keywords, k) ==
    IF k > Len(strategy_keywords) THEN 0
    ELSE (IF Contains(article_text, Lower(strategy_keywords[k])) THEN 1 ELSE 0)
         + KeywordScore(article_text, strategy_keywords, k + 1)

\* x.get('strategy_score', 0)
ScoreKey(obj) ==
    IF "strategy_score" \in obj.keys THEN obj.strategy_score ELSE 0

\* faulty variant: an element goes before the elements of equal key (what sorting
\* ascending and reversing the list would give)
InsertByScoreUnstable(heap, sorted, ref) ==
    LET later == {j \in 1..Len(sorted) :
                     ScoreKey(heap[sorted[j]]) <= ScoreKey(heap[ref])}
        at == IF later = {} THEN Len(sorted) + 1
              ELSE CHOOSE j \in later : \A m \in later : j <= m
    IN SubSeq(sorted, 1, at - 1) \o <<ref>> \o SubSeq(sorted, at, Len(sorted))

\* one insertion of list.sort(key=..., reverse=True): a stable sort keeps
\* elements of equal key in their order, also when reversed
InsertByScore(heap, sorted, ref) ==
    LET later == {j \in 1..Len(sorted) :
                     ScoreKey(heap[sorted[j]]) < ScoreKey(heap[ref])}
        at == IF later = {} THEN Len(sorted) + 1
              ELSE CHOOSE j \in later : \A m \in later : j <= m
    IN SubSeq(sorted, 1, at - 1) \o <<ref>> \o SubSeq(sorted, at, Len(sorted))

RECURSIVE SortByScore(_, _, _)
SortByScore(heap, refs, sorted) ==
    IF refs = <<>> THEN sorted
    ELSE SortByScore(heap, Tail(refs), InsertByScore(heap, sorted, Head(refs)))

\* the loop `for article in articles`, from position k on
RECURSIVE FilterLoop(_, _, _, _, _)
FilterLoop(heap, articles, strategy_keywords, k, filtered) ==
    IF k > Len(articles) THEN [objs |-> heap, filtered |-> filtered]
    ELSE LET ref == articles[k]
             score == KeywordScore(ArticleText(heap[ref]), strategy_keywords, 1)
         IN IF score > 0
            THEN FilterLoop(
                    [heap EXCEPT ![ref].strategy_score = score,
                                 ![ref].keys = @ \cup {"strategy_score"}],
                    articles, strategy_keywords, k + 1, Append(filtered, ref))
            ELSE FilterLoop(heap, articles, strategy_keywords, k + 1, filtered)

filter_articles_by_strategy(heap, articles, strat) ==
    LET looped == FilterLoop(heap, articles, strat.focus, 1, <<>>)
    IN [objs |-> looped.objs,
        filtered |-> SortByScore(looped.objs, looped.filtered, <<>>)]

----------------------------------------------------------------------------
(* Python dict: <<key, value>> pairs in insertion order *)

DictKeys(d) == {d[i][1] : i \in 1..Len(d)}

\* `key in d`
DictHas(d, key) == \E i \in 1..Len(d) : d[i][1] = key

\* d[key]
DictGet(d, key) == d[CHOOSE i \in 1..Len(d) : d[i][1] = key][2]

\* d[key] = value
DictSet(d, key, value) ==
    IF DictHas(d, key)
    THEN [i \in 1..Len(d) |-> IF d[i][1] = key THEN <<key, value>> ELSE d[i]]
    ELSE Append(d, <<key, value>>)

----------------------------------------------------------------------------
(* json.dump(processed_articles, f, indent=2, ensure_ascii=False) into a   *)
(* file opened with encoding='utf-8'.  The text is the JSON of a dict of   *)
(* str to dict of str to str; the white space of indent=2 is left out.     *)

Quote == "\""
Backslash == "\\"

EscapeChar(c) ==
    IF c \in {Quote, Backslash} THEN <<Backslash, c>> ELSE <<c>>

\* the characters of s, each escaped (the string is split in halves to keep
\* the evaluation shallow)
RECURSIVE JsonEscape(_)
JsonEscape(s) ==
    IF Len(s) = 0 THEN <<>>
    ELSE IF Len(s) = 1 THEN EscapeChar(s[1])
    ELSE LET half == Len(s) \div 2
         IN JsonEscape(SubSeq(s, 1, half))
            \o JsonEscape(SubSeq(s, half + 1, Len(s)))

JsonString(s) == <<Quote>> \o JsonEscape(s) \o <<Quote>>

\* depth 0: a str; depth n + 1: a dict of str to values of depth n
RECURSIVE JsonValue(_, _)
RECURSIVE JsonMembers(_, _, _)
JsonMembers(d, k, depth) ==
    IF k > Len(d) THEN <<>>
    ELSE (IF k > 1 THEN <<",">> ELSE <<>>)
         \o JsonString(d[k][1]) \o <<":">> \o JsonValue(d[k][2], depth)
         \o JsonMembers(d, k + 1, depth)

JsonValue(v, depth) ==
    IF depth = 0 THEN JsonString(v)
    ELSE <<"{">> \o JsonMembers(v, 1, depth - 1) \o <<"}">>

JsonDumps(d) == JsonValue(d, 2)

\* UTF-8: an ASCII character is one byte, the non-ASCII character two
LeadByte == "0xC3"
ContinuationByte == "0xA9"

EncodeChar(c) ==
    IF c = NonAscii THEN <<LeadByte, ContinuationByte>> ELSE <<c>>

RECURSIVE Utf8Encode(_)
Utf8Encode(s) ==
    IF Len(s) = 0 THEN <<>>
    ELSE IF Len(s) = 1 THEN EncodeChar(s[1])
    ELSE LET half == Len(s) \div 2
         IN Utf8Encode(SubSeq(s, 1, half))
            \o Utf8Encode(SubSeq(s, half + 1, Len(s)))

\* a lead byte is followed by a continuation byte, a continuation byte
\* follows a lead byte
Utf8Valid(bytes) ==
    \A i \in 1..Len(bytes) :
        /\ bytes[i] = LeadByte =>
              (i + 1 <= Len(bytes) /\ bytes[i + 1] = ContinuationByte)
        /\ bytes[i] = ContinuationByte => (i > 1 /\ bytes[i - 1] = LeadByte)

NotContinuation(b) == b # ContinuationByte

\* f.read() of a file opened with encoding='utf-8': ok = FALSE is
\* UnicodeDecodeError
Utf8Decode(bytes) ==
    IF ~Utf8Valid(bytes) THEN [ok |-> FALSE, text |-> <<>>]
    ELSE LET leads == SelectSeq(bytes, NotContinuation)
         IN [ok |-> TRUE,
             text |-> [i \in 1..Len(leads) |->
                         IF leads[i] = LeadByte THEN NonAscii ELSE leads[i]]]

\* json.load: ok = FALSE is JSONDecodeError
ParseError == [ok |-> FALSE, pos |-> 0, val |-> <<>>]

RECURSIVE ScanString(_, _, _)
ScanString(t, j, acc) ==
    IF j > Len(t) THEN ParseError
    ELSE IF t[j] = Quote THEN [ok |-> TRUE, pos |-> j + 1, val |-> acc]
    ELSE IF t[j] = Backslash
    THEN IF j + 1 <= Len(t) /\ t[j + 1] \in {Quote, Backslash}
         THEN ScanString(t, j + 2, Append(acc, t[j + 1]))
         ELSE ParseError
    ELSE ScanString(t, j + 1, Append(acc, t[j]))

ParseString(t, i) ==
    IF i <= Len(t) /\ t[i] = Quote THEN ScanString(t, i + 1, <<>>)
    ELSE ParseError

RECURSIVE ParseValue(_, _, _)
RECURSIVE ParseMembers(_, _, _, _)
ParseMembers(t, i, depth, acc) ==
    LET key == ParseString(t, i)
    IN IF ~key.ok \/ key.pos > Len(t) \/ t[key.pos] # ":" THEN ParseError
       ELSE LET v == ParseValue(t, key.pos + 1, depth)
                d == DictSet(acc, key.val, v.val)
            IN IF ~v.ok \/ v.pos > Len(t) THEN ParseError
               ELSE IF t[v.pos] = "," THEN ParseMembers(t, v.pos + 1, depth, d)
               ELSE IF t[v.pos] = "}"
               THEN [ok |-> TRUE, pos |-> v.pos + 1, val |-> d]
               ELSE ParseError

ParseValue(t, i, depth) ==
    IF depth = 0 THEN ParseString(t, i)
    ELSE IF i > Len(t) \/ t[i] # "{" THEN ParseError
    ELSE IF i + 1 <= Len(t) /\ t[i + 1] = "}"
    THEN [ok |-> TRUE, pos |-> i + 2, val |-> <<>>]
    ELSE ParseMembers(t, i + 1, depth - 1, <<>>)

JsonLoads(t) ==
    LET r == ParseValue(t, 1, 2)
    IN IF r.ok /\ r.pos = Len(t) + 1 THEN r ELSE ParseError

----------------------------------------------------------------------------
(* History Store: load_processed_articles, save_processed_articles *)

\* raised = TRUE: an exception the function does not catch reaches the caller
load_processed_articles(f) ==
    IF ~f.exists THEN [raised |-> FALSE, value |-> <<>>]
    ELSE LET decoded == Utf8Decode(f.bytes)
         IN IF ~decoded.ok THEN [raised |-> TRUE, value |-> <<>>]
            ELSE LET parsed == JsonLoads(decoded.text)
                 IN IF parsed.ok THEN [raised |-> FALSE, value |-> parsed.val]
                    ELSE [raised |-> FALSE, value |-> <<>>]

\* the bytes a save that runs to its end leaves in the file
save_processed_articles(processed) ==
    [exists |-> TRUE, bytes |-> Utf8Encode(JsonDumps(processed))]

\* open(DUPLICATES_FILE, 'w') empties the file; a process that dies during
\* json.dump leaves the first n bytes of what the save would have written
InterruptedSave(whole, n) ==
    [exists |-> TRUE, bytes |-> SubSeq(whole.bytes, 1, n)]

----------------------------------------------------------------------------
(* Values of the variables a specification does not use *)

MissingFile == [exists |-> FALSE, bytes |-> <<>>]

SeqsUpTo(S, n) == UNION {[1..k -> S] : k \in 0..n}

Refs(n) == [i \in 1..n |-> i]

InitClock == run = 0 /\ now = 0 /\ hour = 0 /\ strategy = NoStrategy

InitLists ==
    /\ new_articles = <<>> /\ strategy_articles = <<>> /\ selected = <<>>
    /\ idx = 0 /\ successful_generations = 0

InitHistory ==
    /\ loaded = <<>> /\ file_at_start = MissingFile /\ save_calls = 0
    /\ rendered = <<>> /\ committed = <<>> /\ intact = TRUE

clockVars == <<run, now, hour, strategy>>
listVars == <<new_articles, strategy_articles, selected, idx,
              successful_generations>>
historyVars == <<loaded, file_at_start, save_calls, rendered, committed,
                 intact>>

----------------------------------------------------------------------------
(* SpecScore: the Strategy Selector and the Relevance Scorer applied to    *)
(* every hour of the day and every short sequence of articles.             *)

InitScore ==
    /\ pc = "score_in"
    /\ \E h \in 0..23 : hour = h
    /\ \E arts \in SeqsUpTo(Universe, MaxScoreLen) :
          objs = arts /\ all_articles = Refs(Len(arts))
    /\ run = 0 /\ now = 0 /\ strategy = NoStrategy
    /\ file = MissingFile /\ feeds = <<>> /\ processed_articles = <<>>
    /\ InitLists /\ InitHistory

ScoreSelectStrategy ==
    /\ pc = "score_in"
    /\ strategy' = get_content_strategy(hour)
    /\ pc' = "score_strategy"
    /\ UNCHANGED <<run, now, hour, file, feeds, objs, all_articles,
                   processed_articles, listVars, historyVars>>

ScoreFilter ==
    /\ pc = "score_strategy"
    /\ LET r == filter_articles_by_strategy(objs, all_articles, strategy)
       IN objs' = r.objs /\ strategy_articles' = r.filtered
    /\ pc' = "score_done"
    /\ UNCHANGED <<clockVars, file, feeds, all_articles, processed_articles,
                   new_articles, selected, idx, successful_generations,
                   historyVars>>

NextScore == ScoreSelectStrategy \/ ScoreFilter

SpecScore == InitScore /\ [][NextScore]_vars

----------------------------------------------------------------------------
(* Fetch: fetch_articles_from_feed and the loop over FEEDS in main().  A   *)
(* feed's answer is the sequence of its items, already parsed; a feed that *)
(* fails answers with no item.                                             *)

fetch_articles_from_feed(items) == Take(items, MAX_PER_FEED)

\* `for feed_url in FEEDS`, from feed k on
RECURSIVE FetchLoop(_, _, _)
FetchLoop(answers, k, fetched) ==
    IF k > Len(answers) THEN fetched
    ELSE IF Len(fetched) >= MAX_TOTAL THEN fetched
    ELSE FetchLoop(answers, k + 1,
                   fetched \o fetch_articles_from_feed(answers[k]))

----------------------------------------------------------------------------
(* Pipeline Coordinator: main() *)

IsoNames == <<"T1", "T2", "T3", "T4">>

\* datetime.now().isoformat()
IsoFormat(t) == <<IsoNames[t]>>

\* the dict main() stores under article['hash']
ProcessedRecord(obj, strat, t) ==
    << <<<<"title">>, obj.title>>,
       <<<<"link">>, obj.link>>,
       <<<<"processed_date">>, IsoFormat(t)>>,
       <<<<"strategy_used">>, strat.description>> >>

\* faulty variant: the membership test is lost, every article counts as new
DedupeLoopKeepAll(heap, articles, processed, k, fresh) ==
    [objs |-> [ref \in 1..Len(heap) |->
                  [heap[ref] EXCEPT !.hash = get_article_hash(heap[ref]),
                                    !.keys = @ \cup {"hash"}]],
     new_articles |-> articles]

\* `for article in all_articles`, from position k on: the duplicate filter
RECURSIVE DedupeLoop(_, _, _, _, _)
DedupeLoop(heap, articles, processed, k, fresh) ==
    IF k > Len(articles) THEN [objs |-> heap, new_articles |-> fresh]
    ELSE LET ref == articles[k]
             article_hash == get_article_hash(heap[ref])
         IN IF ~DictHas(processed, article_hash)
            THEN DedupeLoop(
                    [heap EXCEPT ![ref].hash = article_hash,
                                 ![ref].keys = @ \cup {"hash"}],
                    articles, processed, k + 1, Append(fresh, ref))
            ELSE DedupeLoop(heap, articles, processed, k + 1, fresh)

\* faulty variant: the batch is not cut
SelectBatchUncapped(candidates) == candidates

\* strategy_articles[:min(4, len(strategy_articles))]
SelectBatch(candidates) == Take(candidates, Min(BATCH_CAP, Len(candidates)))

\* what the feeds of one run can answer
FeedAnswers == {<<>>, <<U1, U2, U3>>, <<U6, U4, U5>>, <<U7, U2, U4>>}
FeedConfigurations == {<<a, b>> : a, b \in FeedAnswers}

\* the hours at which the pipeline is started
StartHours == {3, 9, 14, 20}

\* the process is not running: not started yet, returned from main(), ended
\* by an exception of the named step, or killed
Stopped == {"idle", "done", "load_raised", "render_raised", "save_raised",
            "killed"}

Init ==
    /\ pc = "idle"
    /\ file = MissingFile
    /\ feeds = <<>> /\ objs = <<>> /\ all_articles = <<>>
    /\ processed_articles = <<>>
    /\ InitClock /\ InitLists /\ InitHistory

\* lines 388-401: the process starts, picks the strategy, loads the history
Start ==
    /\ pc \in Stopped
    /\ run < MaxRuns
    /\ run' = run + 1 /\ now' = now + 1
    /\ file_at_start' = file
    /\ \E history \in {load_processed_articles(file)} :
          /\ pc' = IF history.raised THEN "load_raised" ELSE "fetch"
          /\ processed_articles' = history.value
          /\ loaded' = history.value
    /\ \E h \in StartHours :
          /\ hour' = h
          /\ strategy' = get_content_strategy(h)
    /\ feeds' = <<>> /\ objs' = <<>> /\ all_articles' = <<>>
    /\ new_articles' = <<>> /\ strategy_articles' = <<>> /\ selected' = <<>>
    /\ idx' = 0 /\ successful_generations' = 0
    /\ save_calls' = 0 /\ rendered' = <<>>
    /\ UNCHANGED <<file, committed, intact>>

\* lines 403-443: fetch, drop the duplicates, score, fall back, select
FetchAndSelect(answers) ==
    /\ pc = "fetch"
    /\ feeds' = answers
    /\ LET fetched == FetchLoop(answers, 1, <<>>)
           deduped == DedupeLoop(fetched, Refs(Len(fetched)),
                                 processed_articles, 1, <<>>)
           scored == filter_articles_by_strategy(
                         deduped.objs, deduped.new_articles, strategy)
       IN /\ all_articles' = Refs(Len(fetched))
          /\ IF fetched = <<>>
             THEN /\ objs' = fetched /\ new_articles' = <<>>
                  /\ strategy_articles' = <<>> /\ selected' = <<>>
                  /\ idx' = 0 /\ pc' = "done"
             ELSE IF deduped.new_articles = <<>>
             THEN /\ objs' = deduped.objs /\ new_articles' = <<>>
                  /\ strategy_articles' = <<>> /\ selected' = <<>>
                  /\ idx' = 0 /\ pc' = "done"
             ELSE /\ objs' = scored.objs
                  /\ new_articles' = deduped.new_articles
                  /\ strategy_articles' =
                        IF scored.filtered = <<>> THEN deduped.new_articles
                        ELSE scored.filtered
                  /\ selected' = SelectBatch(strategy_articles')
                  /\ idx' = 1 /\ pc' = "render"
    /\ UNCHANGED <<clockVars, file, processed_articles,
                   successful_generations, historyVars>>

\* faulty variant: the history is written in every turn of the loop
RenderArticleSaving ==
    /\ pc = "render" /\ idx <= Len(selected)
    /\ LET obj == objs[selected[idx]]
       IN processed_articles' =
             DictSet(processed_articles, obj.hash,
                     ProcessedRecord(obj, strategy, now))
    /\ file' = save_processed_articles(processed_articles')
    /\ save_calls' = save_calls + 1
    /\ rendered' = Append(rendered, selected[idx])
    /\ successful_generations' = successful_generations + 1
    /\ idx' = idx + 1
    /\ UNCHANGED <<pc, clockVars, feeds, objs, all_articles,
                   new_articles, strategy_articles, selected, loaded,
                   file_at_start, committed, intact>>

\* lines 445-459, one turn of the loop in which save_to_mdx returns
RenderArticle ==
    /\ pc = "render" /\ idx <= Len(selected)
    /\ LET obj == objs[selected[idx]]
       IN processed_articles' =
             DictSet(processed_articles, obj.hash,
                     ProcessedRecord(obj, strategy, now))
    /\ rendered' = Append(rendered, selected[idx])
    /\ successful_generations' = successful_generations + 1
    /\ idx' = idx + 1
    /\ UNCHANGED <<pc, clockVars, file, feeds, objs, all_articles,
                   new_articles, strategy_articles, selected, loaded,
                   file_at_start, save_calls, committed, intact>>

\* lines 445-448, a turn of the loop in which save_to_mdx raises (the
\* output directory cannot be made, the document cannot be written): nothing
\* in main() catches it, the process ends with the traceback
RenderRaises ==
    /\ pc = "render" /\ idx <= Len(selected)
    /\ pc' = "render_raised"
    /\ UNCHANGED <<clockVars, file, feeds, objs, all_articles,
                   processed_articles, listVars, historyVars>>

\* line 462 and on: the save runs to its end, main() returns
Commit ==
    /\ pc = "render" /\ idx > Len(selected)
    /\ file' = save_processed_articles(processed_articles)
    /\ save_calls' = save_calls + 1
    /\ committed' = processed_articles
    /\ intact' = TRUE
    /\ pc' = "done"
    /\ UNCHANGED <<clockVars, feeds, objs, all_articles, processed_articles,
                   listVars, loaded, file_at_start, rendered>>

\* line 462: the process dies during the save, n bytes are in the file
CommitInterrupted ==
    /\ pc = "render" /\ idx > Len(selected)
    /\ \E whole \in {save_processed_articles(processed_articles)} :
          \E n \in 0..Min(MaxCrashBytes, Len(whole.bytes) - 1) :
             file' = InterruptedSave(whole, n)
    /\ save_calls' = save_calls + 1
    /\ committed' = <<>>
    /\ intact' = FALSE
    /\ pc' = "killed"
    /\ UNCHANGED <<clockVars, feeds, objs, all_articles, processed_articles,
                   listVars, loaded, file_at_start, rendered>>

\* line 462: open() raises, the file is as it was
CommitRaises ==
    /\ pc = "render" /\ idx > Len(selected)
    /\ save_calls' = save_calls + 1
    /\ pc' = "save_raised"
    /\ UNCHANGED <<clockVars, file, feeds, objs, all_articles,
                   processed_articles, listVars, loaded, file_at_start,
                   rendered, committed, intact>>

Next ==
    \/ Start
    \/ \E answers \in FeedConfigurations : FetchAndSelect(answers)
    \/ RenderArticle
    \/ RenderRaises
    \/ Commit
    \/ CommitInterrupted
    \/ CommitRaises

Spec == Init /\ [][Next]_vars

----------------------------------------------------------------------------
(* SpecFetch: the fetch loop of main() over feeds that answer with up to   *)
(* MAX_PER_FEED + MaxFetchExtra items each.                                *)

Copies(article, n) == [i \in 1..n |-> article]

FetchAnswers ==
    {Copies(U1, n) : n \in 0..(MAX_PER_FEED + MaxFetchExtra)}

InitFetch ==
    /\ pc = "fetch_in"
    /\ \E answers \in [1..MaxFetchFeeds -> FetchAnswers] : feeds = answers
    /\ file = MissingFile /\ objs = <<>> /\ all_articles = <<>>
    /\ processed_articles = <<>>
    /\ InitClock /\ InitLists /\ InitHistory

\* lines 403-409
FetchAll ==
    /\ pc = "fetch_in"
    /\ LET fetched == FetchLoop(feeds, 1, <<>>)
       IN objs' = fetched /\ all_articles' = Refs(Len(fetched))
    /\ pc' = "fetch_done"
    /\ UNCHANGED <<clockVars, file, feeds, processed_articles, listVars,
                   historyVars>>

NextFetch == FetchAll

SpecFetch == InitFetch /\ [][NextFetch]_vars

----------------------------------------------------------------------------
(* Claims *)

InResult(ref) ==
    Cardinality({i \in 1..Len(strategy_articles) : strategy_articles[i] = ref})

\* the number of focus keywords found in `text`, case-insensitively
MatchCount(text, focus) ==
    Cardinality({k \in 1..Len(focus) : Contains(Lower(text), Lower(focus[k]))})

ScoredAs(count(_)) ==
    /\ \A i \in 1..Len(strategy_articles) :
          strategy_articles[i] \in 1..Len(all_articles)
    /\ \A ref \in 1..Len(all_articles) :
          IF count(objs[ref]) > 0
          THEN /\ InResult(ref) = 1
               /\ "strategy_score" \in objs[ref].keys
               /\ objs[ref].strategy_score = count(objs[ref])
          ELSE InResult(ref) = 0

JoinedCount(article) ==
    MatchCount(article.title \o article.content, strategy.focus)

SpacedCount(article) ==
    MatchCount(article.title \o <<" ">> \o article.content, strategy.focus)

\* C6 as stated: the score counts the focus keywords found in the title
\* directly followed by the content, and the result holds exactly the
\* articles of positive score, each once.
C6_ScoreOfJoinedText == pc = "score_done" => ScoredAs(JoinedCount)

\* C6 amended: the score counts the focus keywords found, case-insensitively,
\* in the title, one space, then the content; the result holds exactly the
\* articles of positive score, each once, and none of score 0.
C6_ScoreOfSpacedText == pc = "score_done" => ScoredAs(SpacedCount)

C6_Witness ==
    /\ pc = "score_done"
    /\ \E a, b, c \in 1..Len(all_articles) :
          /\ SpacedCount(objs[a]) >= 2 /\ InResult(a) = 1
          /\ SpacedCount(objs[b]) = 0 /\ InResult(b) = 0
          /\ SpacedCount(objs[c]) > 0
          /\ MatchCount(objs[c].title, strategy.focus) > 0
          /\ ~ \E k \in 1..Len(strategy.focus) :
                  Contains(objs[c].title, strategy.focus[k])

ResultScore(i) == objs[strategy_articles[i]].strategy_score

\* C7: the result is ordered by score descending, and articles of equal
\* score keep their input order.
C7_StableDescending ==
    pc = "score_done" =>
        \A i, j \in 1..Len(strategy_articles) :
            i < j =>
                /\ ResultScore(i) >= ResultScore(j)
                /\ ResultScore(i) = ResultScore(j) =>
                      strategy_articles[i] < strategy_articles[j]

C7_Witness ==
    /\ pc = "score_done"
    /\ \E i, j, k \in 1..Len(strategy_articles) :
          /\ i < j /\ j < k
          /\ ResultScore(i) > ResultScore(j)
          /\ ResultScore(j) = ResultScore(k)
          /\ strategy_articles[i] > strategy_articles[k]

ClaimedHours ==
    [morning |-> 6..11, afternoon |-> 12..17, evening |-> 18..23,
     night |-> 0..5]

InTimeRange(h, strat) == strat.time_range[1] <= h /\ h <= strat.time_range[2]

\* C8: every hour of 0..23 gets exactly one of the four strategies, the one
\* whose claimed hours hold it; the declared time ranges partition 0..23 and
\* the returned strategy's own time_range holds the hour.
C8_StrategyTotality ==
    pc \in {"score_strategy", "score_done"} =>
        /\ hour \in 0..23
        /\ Cardinality({n \in StrategyNames : strategy = strategies[n]}) = 1
        /\ \A n \in StrategyNames :
              strategy = strategies[n] <=> hour \in ClaimedHours[n]
        /\ InTimeRange(hour, strategy)
        /\ \A h \in 0..23 :
              Cardinality({n \in StrategyNames :
                              InTimeRange(h, strategies[n])}) = 1

C8_Witness ==
    /\ pc = "score_strategy" /\ hour = 11
    /\ strategy = strategies["morning"]


----------------------------------------------------------------------------
(* Claims about the run of main() *)

Fingerprint(ref) == get_article_hash(objs[ref])

WasRendered(ref) == \E i \in 1..Len(rendered) : rendered[i] = ref

\* C1: while the history file a finished save wrote is in place, no article
\* whose fingerprint that history holds is selected or rendered by a later
\* run, whatever its hour and strategy.
C1_NoRerender ==
    pc = "render" =>
        /\ \A i \in 1..Len(selected) :
              Fingerprint(selected[i]) \notin DictKeys(committed)
        /\ \A i \in 1..Len(rendered) :
              Fingerprint(rendered[i]) \notin DictKeys(committed)

C1_Witness ==
    /\ pc = "render" /\ run = 2 /\ rendered # <<>>
    /\ \E ref \in 1..Len(all_articles) :
          /\ DictHas(committed, Fingerprint(ref))
          /\ DictGet(DictGet(committed, Fingerprint(ref)), <<"strategy_used">>)
                # strategy.description

\* C2 as stated: a failure of save_to_mdx for one selected article does not
\* end the run: the later articles are rendered and the history is saved.
C2_RenderFailureIsolated ==
    pc = "render_raised" =>
        /\ save_calls = 1
        /\ \A i \in 1..Len(selected) : i > idx => WasRendered(selected[i])

SameIdentity(a, b) ==
    /\ a.title = b.title /\ a.link = b.link
    /\ Take(a.content, HASH_PREFIX) = Take(b.content, HASH_PREFIX)

\* C3 as stated: two fetched articles of equal title, link and first 200
\* characters of content have one fingerprint and at most one of them is
\* rendered, whether the first was recorded by an earlier run or both are in
\* the pool of one run.
C3_SameFingerprintCollapse ==
    \A a, b \in 1..Len(objs) :
        (a # b /\ SameIdentity(objs[a], objs[b])) =>
            /\ Fingerprint(a) = Fingerprint(b)
            /\ ~(WasRendered(a) /\ WasRendered(b))
            /\ DictHas(loaded, Fingerprint(a)) =>
                  (~WasRendered(a) /\ ~WasRendered(b))

\* the mapping a reader finds in the file
FileMapping(f) == JsonLoads(Utf8Decode(f.bytes).text).val

RenderedFingerprints == {Fingerprint(rendered[i]) : i \in 1..Len(rendered)}

\* C4: a run calls the save at most once and only when the loop has gone
\* through every selected article; a run that returns from the loop has
\* written, once, the loaded mapping plus one entry per recorded article;
\* until the save the file is as the run found it.
C4_SingleCommit ==
    /\ save_calls <= 1
    /\ save_calls = 0 => file = file_at_start
    /\ save_calls = 1 =>
          /\ pc \in {"done", "save_raised", "killed"}
          /\ selected # <<>> /\ Len(rendered) = Len(selected)
    /\ (pc = "done" /\ selected # <<>>) =>
          /\ save_calls = 1
          /\ file.exists /\ Utf8Decode(file.bytes).ok
          /\ \A written \in {FileMapping(file)} :
                /\ DictKeys(written) =
                      DictKeys(loaded) \cup RenderedFingerprints
                /\ \A key \in DictKeys(loaded) \ RenderedFingerprints :
                      DictGet(written, key) = DictGet(loaded, key)
                /\ \A i \in 1..Len(rendered) :
                      DictGet(written, Fingerprint(rendered[i])) =
                         ProcessedRecord(objs[rendered[i]], strategy, now)

C4_Witness ==
    /\ pc = "done" /\ run = 2 /\ save_calls = 1
    /\ loaded # <<>> /\ Len(rendered) >= 2
    /\ file # file_at_start

NoNewMatches ==
    \A i \in 1..Len(new_articles) : SpacedCount(objs[new_articles[i]]) = 0

\* C5: when there are new articles, the selection step leaves between 1 and
\* 4 selected: the first min(4, n) of the new articles in fetch order,
\* unscored, when none matches a focus keyword, else the first min(4, m) of
\* the scorer's result.
C5_FallbackAndCap ==
    (pc = "render" /\ idx = 1) =>
        /\ new_articles # <<>>
        /\ 1 <= Len(selected) /\ Len(selected) <= 4
        /\ IF NoNewMatches
           THEN /\ selected = SubSeq(new_articles, 1,
                                     Min(4, Len(new_articles)))
                /\ \A i \in 1..Len(selected) :
                      "strategy_score" \notin objs[selected[i]].keys
           ELSE LET result == filter_articles_by_strategy(
                                  objs, new_articles, strategy).filtered
                IN selected = SubSeq(result, 1, Min(4, Len(result)))

C5_Witness ==
    /\ pc = "render" /\ idx = 1 /\ NoNewMatches
    /\ Len(new_articles) > 4 /\ Len(selected) = 4

\* C9 as stated: load_processed_articles never raises; it gives the empty
\* mapping for a missing file and for a file a cut-short save left, and the
\* saved mapping for a file a finished save left.
C9_LoadNeverFails ==
    /\ pc # "load_raised"
    /\ pc = "fetch" =>
          loaded = IF file.exists /\ intact THEN committed ELSE <<>>

\* C10 as stated: after the fetch the pool holds at most MAX_PER_FEED
\* articles of each feed and at most MAX_TOTAL articles in all.
C10_FetchBounds ==
    pc = "fetch_done" =>
        /\ \A k \in 1..Len(feeds) :
              Len(fetch_articles_from_feed(feeds[k])) <= MAX_PER_FEED
        /\ Len(all_articles) <= MAX_TOTAL

====
